---- MODULE Spec2Model ----
(***************************************************************************)
(* Model of linux_restore_point.py: the create / list / restore / delete   *)
(* commands over the directory of restore point archives.                  *)
(*                                                                         *)
(* Strings are sequences of one-character strings, so that strip(),        *)
(* lower(), split(','), int(), endswith(), replace() and the string order  *)
(* used by sorted() are computed as Python computes them.                  *)
(***************************************************************************)
EXTENDS Integers, Sequences, FiniteSets, TLC

VARIABLES
    clock,      \* wall clock in seconds since 2024-01-01 00:00:00 (datetime.now())
    dirMode,    \* RESTORE_BASE_DIR: "absent", "root700" (mkdir + chmod 700), "open"
    catalog,    \* the *.tar.gz files of RESTORE_BASE_DIR: name -> [createdAt]
    liveFs,     \* the live filesystem under /: "pristine", "restored", "partial"
    env,        \* the host: what lsblk reports, the paths du fails on, whether pv is
                \* installed, the line the operator types at the USB prompt
    last        \* what the most recent invocation of the tool did and printed;
                \* members: the targets of the tar command it built that the
                \* command's exclude patterns do not leave out

vars == <<clock, dirMode, catalog, liveFs, env, last>>

\* ------------------------------------------------------------------ bounds

\* The clock starts at StartClock and the model lets it advance MaxTicks seconds.
StartClock == 58
MaxTicks == 1
\* The model keeps at most MaxSnapshots archives in the directory.
MaxSnapshots == 2

\* ----------------------------------------------------------------- strings

Upper == <<"A","B","C","D","E","F","G","H","I","J","K","L","M",
           "N","O","P","Q","R","S","T","U","V","W","X","Y","Z">>
LowerLetters == <<"a","b","c","d","e","f","g","h","i","j","k","l","m",
                  "n","o","p","q","r","s","t","u","v","w","x","y","z">>
Digits == <<"0","1","2","3","4","5","6","7","8","9">>

\* The characters of the model in ascending code point order.
Ascii == <<" ", "*", "+", ",", "-", ".", "/">> \o Digits \o Upper \o <<"_">> \o LowerLetters

Ord(c) == CHOOSE i \in 1..Len(Ascii) : Ascii[i] = c

IsSpace(c) == c = " "

IsDigit(c) == \E i \in 1..Len(Digits) : Digits[i] = c

DigitVal(c) == (CHOOSE i \in 1..Len(Digits) : Digits[i] = c) - 1

\* str.lower() on one character
LowerChar(c) ==
    IF \E i \in 1..Len(Upper) : Upper[i] = c
    THEN LowerLetters[CHOOSE i \in 1..Len(Upper) : Upper[i] = c]
    ELSE c

\* str.lower()
Lower(s) == [i \in 1..Len(s) |-> LowerChar(s[i])]

RECURSIVE LStrip(_)
LStrip(s) == IF s # <<>> /\ IsSpace(Head(s)) THEN LStrip(Tail(s)) ELSE s

RECURSIVE RStrip(_)
RStrip(s) ==
    IF s # <<>> /\ IsSpace(s[Len(s)]) THEN RStrip(SubSeq(s, 1, Len(s) - 1)) ELSE s

\* str.strip()
Strip(s) == RStrip(LStrip(s))

\* str.startswith(p)
StartsWith(s, p) == Len(p) <= Len(s) /\ SubSeq(s, 1, Len(p)) = p

\* str.endswith(p)
EndsWith(s, p) == Len(p) <= Len(s) /\ SubSeq(s, Len(s) - Len(p) + 1, Len(s)) = p

\* str.replace(p, ''): every non-overlapping occurrence of p, left to right
RECURSIVE RemoveAll(_, _)
RemoveAll(s, p) ==
    LET at == {i \in 1..(Len(s) - Len(p) + 1) : SubSeq(s, i, i + Len(p) - 1) = p}
    IN IF p = <<>> \/ at = {} THEN s
       ELSE LET k == CHOOSE i \in at : \A j \in at : i <= j
            IN SubSeq(s, 1, k - 1) \o RemoveAll(SubSeq(s, k + Len(p), Len(s)), p)

\* str.split(','): the pieces between the commas, empty pieces included
RECURSIVE SplitComma(_)
SplitComma(s) ==
    IF \A i \in 1..Len(s) : s[i] # ","
    THEN <<s>>
    ELSE LET k == CHOOSE i \in 1..Len(s) :
                      s[i] = "," /\ \A j \in 1..(i - 1) : s[j] # ","
         IN <<SubSeq(s, 1, k - 1)>> \o SplitComma(SubSeq(s, k + 1, Len(s)))

\* The string order of Python's sorted(): code point by code point, a proper
\* prefix before the longer string.
StrLess(a, b) ==
    LET n == IF Len(a) < Len(b) THEN Len(a) ELSE Len(b)
        differ == {i \in 1..n : a[i] # b[i]}
    IN IF differ = {} THEN Len(a) < Len(b)
       ELSE LET k == CHOOSE i \in differ : \A j \in differ : i <= j
            IN Ord(a[k]) < Ord(b[k])

RECURSIVE DigitsValue(_)
DigitsValue(s) ==
    IF s = <<>> THEN 0 ELSE 10 * DigitsValue(SubSeq(s, 1, Len(s) - 1)) + DigitVal(s[Len(s)])

AllDigits(s) == s # <<>> /\ \A i \in 1..Len(s) : IsDigit(s[i])

\* int(x): surrounding whitespace and one sign are accepted, anything else
\* raises ValueError (ok = FALSE).
ParseInt(x) ==
    LET t == Strip(x)
        signed == t # <<>> /\ Head(t) \in {"+", "-"}
        body == IF signed THEN Tail(t) ELSE t
    IN IF AllDigits(body)
       THEN [ok |-> TRUE,
             val |-> IF signed /\ Head(t) = "-" THEN 0 - DigitsValue(body)
                     ELSE DigitsValue(body)]
       ELSE [ok |-> FALSE, val |-> 0]

\* Two decimal digits of n, as strftime's %H, %M, %S print them.
TwoDigits(n) == <<Digits[((n \div 10) % 10) + 1], Digits[(n % 10) + 1]>>

\* datetime.now().strftime("%Y%m%d_%H%M%S") for a clock within the model's day
Strftime(t) ==
    <<"2","0","2","4","0","1","0","1","_">>
        \o TwoDigits((t \div 3600) % 24) \o TwoDigits((t \div 60) % 60) \o TwoDigits(t % 60)

\* ------------------------------------------------------------------- paths

Etc == <<"/","e","t","c">>
Home == <<"/","h","o","m","e">>
UsbMedia == <<"/","m","e","d","i","a","/","a">>
UsbData == <<"/","u","s","b">>
BootEfi == <<"/","b","o","o","t","/","e","f","i">>
Root == <<"/">>

TarGz == <<".","t","a","r",".","g","z">>

\* The name a missing or empty --name stands for
NoName == <<>>

RestorePrefix == <<"r","e","s","t","o","r","e">>

\* create_restore_point: f"{name}_{timestamp}" if name else f"restore_{timestamp}"
RestorePointName(name, timestamp) ==
    (IF name # NoName THEN name ELSE RestorePrefix) \o <<"_">> \o timestamp

\* os.path.join(RESTORE_BASE_DIR, f"{name}.tar.gz"), relative to the directory
ArchiveFile(name) == name \o TarGz

\* os.listdir(RESTORE_BASE_DIR), the archives of it
ListDir == {ArchiveFile(n) : n \in DOMAIN catalog}

\* os.path.exists(archive_path)
ArchiveExists(name) == ArchiveFile(name) \in ListDir

\* ----------------------------------------------------------- pure helpers

Range(s) == {s[i] : i \in 1..Len(s)}

\* sorted(S) for a set of strings
RECURSIVE SortedSeq(_)
SortedSeq(S) ==
    IF S = {} THEN <<>>
    ELSE LET m == CHOOSE x \in S : \A y \in S \ {x} : StrLess(x, y)
         IN <<m>> \o SortedSeq(S \ {m})

\* A faulty variant of ListedNames: the names in descending string order
ListedNamesDescending ==
    LET asc == SortedSeq({RemoveAll(f, TarGz) : f \in {g \in ListDir : EndsWith(g, TarGz)}})
    IN [i \in 1..Len(asc) |-> asc[Len(asc) + 1 - i]]

\* list_restore_points: the names printed, in the order printed
ListedNames ==
    SortedSeq({RemoveAll(f, TarGz) : f \in {g \in ListDir : EndsWith(g, TarGz)}})

SystemPrefixes ==
    { <<"/","b","o","o","t">>, <<"/","v","a","r">>, <<"/","u","s","r">>,
      <<"/","o","p","t">>, <<"/","l","i","b">>, <<"/","e","t","c">>,
      <<"/","b","i","n">>, <<"/","s","b","i","n">>, <<"/","r","o","o","t">> }

\* get_mounted_usb_drives: the lines of lsblk kept, unique, sorted, directories
GetMountedUsbDrives(lsblk) ==
    SortedSeq({ d.mountpoint : d \in
        { e \in lsblk :
            /\ e.mountpoint # <<>>
            /\ StartsWith(e.mountpoint, <<"/">>)
            /\ e.devType \in {"part", "disk"}
            /\ e.transport = "usb"
            /\ \A p \in SystemPrefixes : ~StartsWith(e.mountpoint, p)
            /\ e.isdir } })

\* create_restore_point: backup_targets before the USB selection
BaseTargets(kind) == IF kind = "system" THEN <<Etc>> ELSE <<Etc, Home>>

\* The entries of the selection that are not blank: x for x in split(',') if x.strip()
SelectionEntries(selection) == SelectSeq(SplitComma(selection), LAMBDA x : Strip(x) # <<>>)

\* A faulty variant of PickDrives: the number entered is used as it is, as a
\* 0-based index
RECURSIVE PickDrivesZeroBased(_, _)
PickDrivesZeroBased(drives, entries) ==
    IF entries = <<>> THEN <<>>
    ELSE LET idx == ParseInt(Head(entries)).val
         IN (IF 0 <= idx /\ idx < Len(drives) THEN <<drives[idx + 1]>> ELSE <<>>)
                \o PickDrivesZeroBased(drives, Tail(entries))

\* The drives of the valid indices of a list of numbers, in the order entered
RECURSIVE PickDrives(_, _)
PickDrives(drives, entries) ==
    IF entries = <<>> THEN <<>>
    ELSE LET idx == ParseInt(Head(entries)).val - 1
         IN (IF 0 <= idx /\ idx < Len(drives) THEN <<drives[idx + 1]>> ELSE <<>>)
                \o PickDrives(drives, Tail(entries))

\* create_restore_point: selected_usb_paths for the operator's input line
SelectedUsbPaths(drives, line) ==
    LET selection == Lower(Strip(line))
        entries == SelectionEntries(selection)
    IN IF selection = <<"a","l","l">> THEN drives
       ELSE IF \E i \in 1..Len(entries) : ~ParseInt(entries[i]).ok THEN <<>>
       ELSE PickDrives(drives, entries)

\* The numbers of the selection the code warns about and skips
InvalidSelections(drives, line) ==
    LET selection == Lower(Strip(line))
        entries == SelectionEntries(selection)
    IN IF selection = <<"a","l","l">> \/ \E i \in 1..Len(entries) : ~ParseInt(entries[i]).ok
       THEN {}
       ELSE {ParseInt(entries[i]).val : i \in {j \in 1..Len(entries) :
                 ~(1 <= ParseInt(entries[j]).val /\ ParseInt(entries[j]).val <= Len(drives))}}

\* Whether the selection raises ValueError ("Skipping USB inclusion")
SelectionValueError(line) ==
    LET selection == Lower(Strip(line))
        entries == SelectionEntries(selection)
    IN selection # <<"a","l","l">> /\ \E i \in 1..Len(entries) : ~ParseInt(entries[i]).ok

\* create_restore_point: backup_targets handed to tar and du
BackupTargets(kind, drives, line) == BaseTargets(kind) \o SelectedUsbPaths(drives, line)

\* RESTORE_BASE_DIR
RestoreBaseDir ==
    <<"/","v","a","r","/","b","a","c","k","u","p","s","/","l","i","n","u","x","_",
      "r","e","s","t","o","r","e","_","p","o","i","n","t","s">>

\* create_restore_point: exclude_paths, each handed to tar as --exclude=
ExcludePaths ==
    << <<"/","p","r","o","c">>, <<"/","s","y","s">>, <<"/","d","e","v">>,
       <<"/","r","u","n">>, <<"/","t","m","p">>, <<"/","m","n","t">>,
       <<"/","m","e","d","i","a">>, RestoreBaseDir \o <<"/","*">> >>

\* fnmatch of a whole string against a pattern in which * stands for any
\* characters, slashes included (tar's --wildcards-match-slash default)
RECURSIVE GlobMatch(_, _)
GlobMatch(p, s) ==
    IF p = <<>> THEN s = <<>>
    ELSE IF Head(p) = "*"
    THEN \E k \in 0..Len(s) : GlobMatch(Tail(p), SubSeq(s, k + 1, Len(s)))
    ELSE s # <<>> /\ Head(s) = Head(p) /\ GlobMatch(Tail(p), Tail(s))

\* Whether tar leaves out the file or command line argument called name: an
\* exclude pattern matches it or a directory above it, from the start of the
\* name or from after one of its slashes (tar's defaults for --exclude)
TarExcludes(name) ==
    \E i \in 1..Len(ExcludePaths) :
        \E from \in {1} \cup {j + 1 : j \in {h \in 1..(Len(name) - 1) : name[h] = "/"}} :
            \E to \in {k \in from..Len(name) : k = Len(name) \/ name[k + 1] = "/"} :
                GlobMatch(ExcludePaths[i], SubSeq(name, from, to))

\* The targets of the tar command line that tar archives
TarMembers(targets) == SelectSeq(targets, LAMBDA t : ~TarExcludes(t))

\* The bytes du -sb reports for a path, when it succeeds
DuBytes(path) == Len(path)

\* create_restore_point: the loop that sums du over the targets; a failure
\* sets the total to 0 and the loop goes on with the next target.
RECURSIVE EstimateFrom(_, _, _)
EstimateFrom(targets, duFail, total) ==
    IF targets = <<>> THEN total
    ELSE EstimateFrom(Tail(targets), duFail,
                      IF Head(targets) \in duFail THEN 0 ELSE total + DuBytes(Head(targets)))

TotalSizeBytes(targets, duFail) == EstimateFrom(targets, duFail, 0)

\* create_restore_point: whether pv is put in the pipeline
UsePv(pvInstalled, totalSize) == pvInstalled /\ totalSize > 0

\* The exit status /bin/sh gives "tar ... | pv ... | gzip > file": the status
\* of the last command of the pipeline.
CreatePipelineStatus(out) == IF out.gzipOk THEN 0 ELSE 1

\* A faulty variant of Confirmed: any line that begins with y or Y confirms
ConfirmedByInitial(line) ==
    LET t == Lower(Strip(line)) IN t # <<>> /\ Head(t) = "y"

\* restore_from_point / delete_restore_point: input().strip().lower() == "yes"
Confirmed(line) == Lower(Strip(line)) = <<"y","e","s">>

\* ------------------------------------------------------------------ inputs

\* --name of create
NameArgs == {NoName, <<"a">>}

Kinds == {"system", "full"}

\* What lsblk can report: no USB device at all, or two mounted USB partitions,
\* a USB partition mounted under /boot and the SATA root disk.
NoDevices == { [mountpoint |-> Root, devType |-> "part", transport |-> "sata", isdir |-> TRUE] }

TwoUsb ==
    { [mountpoint |-> UsbData, devType |-> "part", transport |-> "usb", isdir |-> TRUE],
      [mountpoint |-> UsbMedia, devType |-> "part", transport |-> "usb", isdir |-> TRUE],
      [mountpoint |-> BootEfi, devType |-> "part", transport |-> "usb", isdir |-> TRUE],
      [mountpoint |-> <<>>, devType |-> "disk", transport |-> "usb", isdir |-> FALSE],
      [mountpoint |-> Root, devType |-> "part", transport |-> "sata", isdir |-> TRUE] }

LsblkOutputs == {NoDevices, TwoUsb}

\* Lines the operator types at the USB prompt
SelectionInputs ==
    { <<"A","L","L"," ">>,          \* "ALL "
      <<"2",","," ","1">>,          \* "2, 1"
      <<"1",",","7">>,              \* "1,7"
      <<"0",",","2",",">>,          \* "0,2,"
      <<"1",",","x">>,              \* "1,x"
      <<>> }                        \* ""

\* Lines the operator types at the confirmation prompt
ConfirmInputs ==
    { <<"y","e","s">>, <<" ","Y","E","S"," ">>, <<"y">>, <<"n","o">>, <<>> }

\* How the stages of the create pipeline can end, and an interrupt of it
PipelineOutcomes ==
    { [tarOk |-> TRUE,  pvOk |-> TRUE,  gzipOk |-> TRUE,  interrupted |-> FALSE],
      [tarOk |-> FALSE, pvOk |-> TRUE,  gzipOk |-> TRUE,  interrupted |-> FALSE],
      [tarOk |-> TRUE,  pvOk |-> FALSE, gzipOk |-> TRUE,  interrupted |-> FALSE],
      [tarOk |-> TRUE,  pvOk |-> TRUE,  gzipOk |-> FALSE, interrupted |-> FALSE],
      [tarOk |-> TRUE,  pvOk |-> TRUE,  gzipOk |-> TRUE,  interrupted |-> TRUE] }

AllOk == [tarOk |-> TRUE, pvOk |-> TRUE, gzipOk |-> TRUE, interrupted |-> FALSE]

\* Names given to restore and delete: no --name, a recorded name, a name not recorded
Missing == <<"n","o","n","e">>

LookupNames == DOMAIN catalog \cup {NoName, Missing}

\* -------------------------------------------------------------- invocation

\* The record of an invocation before it did anything
Blank ==
    [ op |-> "none", root |-> FALSE, name |-> <<>>, exit |-> 0, events |-> <<>>,
      kind |-> "", input |-> <<>>, targets |-> <<>>,
      pvSize |-> -1, stages |-> AllOk, members |-> <<>>, listing |-> <<>>,
      catBefore |-> catalog, fsBefore |-> liveFs ]

\* ensure_restore_dir at import: mkdir and chmod 700 need root when the
\* directory is missing
StartupFails(root) == dirMode = "absent" /\ ~root

DirAfterStartup == IF dirMode = "absent" THEN "root700" ELSE dirMode

\* configure_per_process_logging: logging.FileHandler opens the log file in
\* RESTORE_BASE_DIR; PermissionError is not caught
LogOpenFails(root) == ~root /\ DirAfterStartup = "root700"

\* The invocation ends at startup: the privilege error or the traceback
StartupEnd(rec, root) ==
    IF StartupFails(root)
    THEN [rec EXCEPT !.events = <<"mkdir", "privError", "initFailed">>, !.exit = 1]
    ELSE [rec EXCEPT !.events = <<"logOpen", "crash">>, !.exit = 1]

\* list_restore_points, as called by the not-found paths: the log, then the listing
ListingEvents == <<"logOpen", IF ListedNames = <<>> THEN "noneFound" ELSE "listing">>

\* The hosts of the model: lsblk's report, the paths du fails on, pv, and the
\* operator's answer to the USB prompt.
Hosts ==
    [ lsblk : LsblkOutputs, duFail : SUBSET {Etc, Home, UsbData},
      pvInstalled : BOOLEAN, line : SelectionInputs ]

\* The host the lifecycle is explored on: two USB drives, pv installed, du
\* succeeds, the operator answers "ALL "
LifecycleHosts ==
    { h \in Hosts : /\ h.lsblk = TwoUsb /\ h.pvInstalled
                    /\ h.duFail = {} /\ h.line = <<"A","L","L"," ">> }

InitOn(hosts) ==
    /\ clock = StartClock
    /\ dirMode \in {"absent", "root700", "open"}
    /\ catalog = <<>>
    /\ liveFs = "pristine"
    /\ env \in hosts
    /\ last = [ op |-> "none", root |-> FALSE, name |-> <<>>, exit |-> 0, events |-> <<>>,
                kind |-> "", input |-> <<>>, targets |-> <<>>,
                pvSize |-> -1, stages |-> AllOk, members |-> <<>>, listing |-> <<>>,
                catBefore |-> <<>>, fsBefore |-> "pristine" ]

Init == InitOn(LifecycleHosts)

\* A second passes
Tick ==
    /\ clock < StartClock + MaxTicks
    /\ clock' = clock + 1
    /\ UNCHANGED <<dirMode, catalog, liveFs, env, last>>

\* The directory after the shell opened name.tar.gz for writing and the
\* pipeline ended: the file is there, written anew, whatever the stages did.
WriteArchive(name) ==
    [n \in DOMAIN catalog \cup {name} |->
        IF n = name THEN [createdAt |-> clock] ELSE catalog[n]]

\* The events of the USB part of create_restore_point
UsbEvents(includeUsb, drives, line) ==
    IF ~includeUsb THEN <<>>
    ELSE IF drives = <<>> THEN <<"lsblk">>
    ELSE <<"lsblk", "usbPrompt">>
            \o (IF InvalidSelections(drives, line) # {} THEN <<"invalidSkipped">> ELSE <<>>)
            \o (IF SelectionValueError(line) THEN <<"selectionDropped">> ELSE <<>>)

\* The events of the size loop
EstimateEvents(targets, duFail) ==
    <<"estimate">> \o (IF Range(targets) \cap duFail # {} THEN <<"estimateWarning">> ELSE <<>>)

\* create_restore_point, run to its end; run_command runs the pipeline
\* CreateArchive models.
CreateArchive(rec, name, out) ==
    LET status == CreatePipelineStatus(out)
    IN /\ catalog' = WriteArchive(name)
       /\ last' = [rec EXCEPT
                     !.stages = out,
                     !.events = rec.events \o
                         (IF out.interrupted THEN <<"archive", "crash">>
                          ELSE IF status = 0 THEN <<"archive", "success">>
                          ELSE <<"archive", "cmdError", "crash">>),
                     !.exit = IF ~out.interrupted /\ status = 0 THEN 0 ELSE 1]

Create ==
    \E kind \in Kinds, includeUsb \in BOOLEAN :
    \* (what the run computes from the host is bound once for each kind and
    \* flag, by a quantifier over a one-element set)
    \E drives \in {IF includeUsb THEN GetMountedUsbDrives(env.lsblk) ELSE <<>>} :
    \E line \in {IF drives # <<>> THEN env.line ELSE <<>>} :
    \E targets \in {IF drives # <<>> THEN BackupTargets(kind, drives, line)
                    ELSE BaseTargets(kind)} :
    \E total \in {TotalSizeBytes(targets, env.duFail)} :
    \E members \in {TarMembers(targets)} :
    \E events \in {<<"logOpen">> \o UsbEvents(includeUsb, drives, line)
                       \o EstimateEvents(targets, env.duFail) \o <<"pvCheck">>} :
    \E root \in BOOLEAN, nameArg \in NameArgs :
        LET name == RestorePointName(nameArg, Strftime(clock))
            rec0 == [Blank EXCEPT !.op = "create", !.root = root, !.name = name,
                                  !.kind = kind]
        IN
        /\ name \in DOMAIN catalog \/ Cardinality(DOMAIN catalog) < MaxSnapshots
        /\ UNCHANGED <<clock, liveFs, env>>
        /\ IF StartupFails(root) \/ LogOpenFails(root)
           THEN /\ last' = StartupEnd(rec0, root)
                /\ UNCHANGED <<dirMode, catalog>>
           ELSE
             \E rec1 \in {[rec0 EXCEPT
                            !.input = line,
                            !.targets = targets,
                            !.members = members,
                            !.pvSize = IF UsePv(env.pvInstalled, total) THEN total ELSE -1,
                            !.events = events]} :
             /\ dirMode' = DirAfterStartup
             /\ IF ~root
                THEN /\ last' = [rec1 EXCEPT !.events = rec1.events \o <<"privError">>,
                                             !.exit = 1]
                     /\ UNCHANGED catalog
                ELSE \E out \in PipelineOutcomes : CreateArchive(rec1, name, out)

\* list_restore_points
List ==
    \E root \in BOOLEAN :
        LET rec0 == [Blank EXCEPT !.op = "list", !.root = root]
        IN
        /\ UNCHANGED <<clock, catalog, liveFs, env>>
        /\ IF StartupFails(root) \/ LogOpenFails(root)
           THEN /\ last' = StartupEnd(rec0, root)
                /\ UNCHANGED dirMode
           ELSE /\ dirMode' = DirAfterStartup
                /\ last' = [rec0 EXCEPT !.events = ListingEvents,
                                        !.listing = ListedNames,
                                        !.exit = 0]

\* A faulty variant of NotFoundEnd: the invocation returns instead of exiting 1
NotFoundEndReturns(rec, name) ==
    [rec EXCEPT
       !.events = (IF name = NoName THEN <<"nameRequired">> ELSE <<"logOpen", "notFound">>)
                      \o ListingEvents,
       !.listing = ListedNames,
       !.exit = 0]

\* main and restore_from_point / delete_restore_point up to the lookup: no
\* --name, or no archive of that name
NotFoundEnd(rec, name) ==
    [rec EXCEPT
       !.events = (IF name = NoName THEN <<"nameRequired">> ELSE <<"logOpen", "notFound">>)
                      \o ListingEvents,
       !.listing = ListedNames,
       !.exit = 1]

\* restore_from_point
Restore ==
    \E root \in BOOLEAN, name \in LookupNames :
        LET rec0 == [Blank EXCEPT !.op = "restore", !.root = root, !.name = name]
        IN
        /\ UNCHANGED <<clock, catalog, env>>
        /\ IF StartupFails(root) \/ (LogOpenFails(root))
           THEN /\ last' = StartupEnd(rec0, root)
                /\ UNCHANGED <<dirMode, liveFs>>
           ELSE
             /\ dirMode' = DirAfterStartup
             /\ IF name = NoName \/ ~ArchiveExists(name)
                THEN /\ last' = NotFoundEnd(rec0, name)
                     /\ UNCHANGED liveFs
                ELSE
                  \E line \in ConfirmInputs :
                    LET rec1 == [rec0 EXCEPT !.input = line,
                                             !.events = <<"logOpen", "warning", "confirmPrompt">>]
                    IN
                    IF ~Confirmed(line)
                    THEN /\ last' = [rec1 EXCEPT !.events = rec1.events \o <<"cancelled">>,
                                                 !.exit = 0]
                         /\ UNCHANGED liveFs
                    ELSE IF ~root
                    THEN /\ last' = [rec1 EXCEPT
                                       !.events = rec1.events \o <<"pvCheck", "privError">>,
                                       !.exit = 1]
                         /\ UNCHANGED liveFs
                    ELSE
                      \E tarOk \in BOOLEAN :
                        /\ liveFs' = IF tarOk THEN "restored" ELSE "partial"
                        /\ last' = [rec1 EXCEPT
                                      !.events = rec1.events \o <<"pvCheck", "extract">>
                                          \o (IF tarOk THEN <<"success">>
                                              ELSE <<"cmdError", "crash">>),
                                      !.exit = IF tarOk THEN 0 ELSE 1]

\* A faulty variant of RemoveArchive: every archive of the directory is removed
RemoveEveryArchive(name) == [n \in {} |-> catalog[n]]

\* os.remove(archive_path)
RemoveArchive(name) == [n \in DOMAIN catalog \ {name} |-> catalog[n]]

\* delete_restore_point
Delete ==
    \E root \in BOOLEAN, name \in LookupNames :
        LET rec0 == [Blank EXCEPT !.op = "delete", !.root = root, !.name = name]
        IN
        /\ UNCHANGED <<clock, liveFs, env>>
        /\ IF StartupFails(root) \/ LogOpenFails(root)
           THEN /\ last' = StartupEnd(rec0, root)
                /\ UNCHANGED <<dirMode, catalog>>
           ELSE
             /\ dirMode' = DirAfterStartup
             /\ IF name = NoName \/ ~ArchiveExists(name)
                THEN /\ last' = NotFoundEnd(rec0, name)
                     /\ UNCHANGED catalog
                ELSE
                  \E line \in ConfirmInputs :
                    LET rec1 == [rec0 EXCEPT !.input = line,
                                             !.events = <<"logOpen", "warning", "confirmPrompt">>]
                    IN
                    IF ~Confirmed(line)
                    THEN /\ last' = [rec1 EXCEPT !.events = rec1.events \o <<"cancelled">>,
                                                 !.exit = 0]
                         /\ UNCHANGED catalog
                    ELSE
                      \E removeOk \in BOOLEAN :
                        IF removeOk
                        THEN /\ catalog' = RemoveArchive(name)
                             /\ last' = [rec1 EXCEPT
                                           !.events = rec1.events \o <<"remove", "success">>,
                                           !.exit = 0]
                        ELSE /\ UNCHANGED catalog
                             /\ last' = [rec1 EXCEPT
                                           !.events = rec1.events \o <<"remove", "removeError">>,
                                           !.exit = 1]

Next == Tick \/ Create \/ List \/ Restore \/ Delete

Spec == Init /\ [][Next]_vars

\* One create on a fresh installation, on any host of the model
InitAnyHost == InitOn(Hosts)

CreateFirst == last.op = "none" /\ Create

SpecCreate == InitAnyHost /\ [][CreateFirst]_vars

\* ------------------------------------------------------------------ claims

\* The last invocation did ev
Has(ev) == \E i \in 1..Len(last.events) : last.events[i] = ev

\* The last invocation got past the import and the opening of its log
Started == Has("logOpen") /\ last.events # <<"logOpen", "crash">>

\* A stage of the create pipeline of the last invocation failed
StageFailed ==
    \/ ~last.stages.tarOk
    \/ ~last.stages.gzipOk
    \/ (last.pvSize >= 0 /\ ~last.stages.pvOk)

\* C1: a create whose archiver fails or is interrupted before reporting success
\* ends with failure and leaves no entry of its name: List does not show the
\* name and restore / delete of it find no archive.
C1_FailedCreateLeavesNoEntry ==
    (last.op = "create" /\ Has("archive") /\ (StageFailed \/ last.stages.interrupted))
        => /\ last.exit # 0
           /\ last.name \notin DOMAIN catalog
           /\ last.name \notin Range(ListedNames)
           /\ ~ArchiveExists(last.name)

\* C2: a successful create adds exactly one new snapshot, under a name no
\* recorded snapshot has, and leaves every recorded snapshot as it was.
C2_CreateAddsOneNewSnapshot ==
    (last.op = "create" /\ Has("success"))
        => /\ last.name \notin DOMAIN last.catBefore
           /\ DOMAIN catalog = DOMAIN last.catBefore \cup {last.name}
           /\ Cardinality(DOMAIN catalog) = Cardinality(DOMAIN last.catBefore) + 1
           /\ \A n \in DOMAIN last.catBefore :
                 n \in DOMAIN catalog /\ catalog[n] = last.catBefore[n]

\* The listing of the last invocation shows every recorded snapshot once
ListsAll ==
    /\ Range(last.listing) = DOMAIN catalog
    /\ Len(last.listing) = Cardinality(DOMAIN catalog)

YesLines == { <<"y","e","s">>, <<" ","Y","E","S"," ">> }

Destroyed == Has("extract") \/ Has("remove")

Untouched == catalog = last.catBefore /\ liveFs = last.fsBefore

\* C4 as claimed: restore and delete of a recorded snapshot extract or remove
\* only when the operator's line is exactly "yes"; any other line leaves the
\* catalog and the filesystem as they were and the exit code 0.
C4_ExactPhraseOnly ==
    (last.op \in {"restore", "delete"} /\ Has("confirmPrompt"))
        => /\ Destroyed => last.input = <<"y","e","s">>
           /\ last.input # <<"y","e","s">> => Untouched /\ last.exit = 0

\* C4 as amended: they extract or remove only when the line reads "yes" after
\* surrounding whitespace is removed and capitals are made small; any other
\* line leaves the catalog and the filesystem as they were and the exit code 0.
C4_NormalizedPhraseOnly ==
    (last.op \in {"restore", "delete"} /\ Has("confirmPrompt"))
        => /\ Destroyed => last.input \in YesLines
           /\ last.input \notin YesLines
                 => Untouched /\ ~Destroyed /\ Has("cancelled") /\ last.exit = 0

\* A delete of a recorded snapshot answered "y": cancelled
C4_Witness ==
    /\ last.op = "delete"
    /\ last.input = <<"y">>
    /\ Has("cancelled")
    /\ last.name \in DOMAIN catalog

Work == {"usbPrompt", "confirmPrompt", "estimate", "archive", "extract", "remove"}

\* C5: a create, restore or delete without root ends with failure before any
\* prompt, size estimation, archiving, extraction or removal.
C5_PrivilegeCheckedFirst ==
    (last.op \in {"create", "restore", "delete"} /\ ~last.root)
        => /\ last.exit # 0
           /\ \A w \in Work : ~Has(w)

\* C6: when a stage of the create pipeline exits non-zero, create ends with a
\* non-zero exit and does not print the success message.
C6_ArchiverFailureSurfaced ==
    (last.op = "create" /\ Has("archive") /\ StageFailed)
        => last.exit # 0 /\ ~Has("success")

C8_DeleteRemovesThatSnapshotOnly ==
    (last.op = "delete" /\ Has("remove"))
        => IF Has("success")
           THEN /\ last.exit = 0
                /\ last.name \in DOMAIN last.catBefore
                /\ last.name \notin Range(ListedNames)
                /\ ~ArchiveExists(last.name)
                /\ DOMAIN catalog = DOMAIN last.catBefore \ {last.name}
                /\ \A n \in DOMAIN catalog :
                      catalog[n] = last.catBefore[n] /\ n \in Range(ListedNames)
           ELSE /\ last.exit # 0
                /\ catalog = last.catBefore
                /\ ArchiveExists(last.name)
                /\ last.name \in Range(ListedNames)

\* A confirmed delete that succeeded and left another snapshot recorded
C8_Witness ==
    /\ last.op = "delete"
    /\ Has("remove")
    /\ Has("success")
    /\ catalog # <<>>

\* The USB drives among the targets of the last create
UsbPart == SubSeq(last.targets, Len(BaseTargets(last.kind)) + 1, Len(last.targets))

\* The drives the USB prompt of the last create offered
Offered == GetMountedUsbDrives(env.lsblk)

\* The entries of the line typed at the USB prompt
Typed == SelectionEntries(Lower(Strip(last.input)))

TypedAll == Lower(Strip(last.input)) = <<"a","l","l">>

\* Entry i is a number of an offered drive
GoodEntry(i) ==
    /\ ParseInt(Typed[i]).ok
    /\ 1 <= ParseInt(Typed[i]).val
    /\ ParseInt(Typed[i]).val <= Len(Offered)

\* The drives seq holds are those of the entries of the set at, in their order
DrivesOf(seq, at) ==
    /\ Len(seq) = Cardinality(at)
    /\ \A k \in 1..Len(seq) :
          seq[k] = Offered[ParseInt(Typed[CHOOSE i \in at :
                                Cardinality({j \in at : j <= i}) = k]).val]

\* C9 as claimed: the targets of a create that asked for USB drives are the
\* base paths of its kind followed by every offered drive for "all", and for a
\* list by the drive of every entry that is a valid index, whatever the other
\* entries of the list are; create goes on to the size estimation.
C9_ValidEntriesKept ==
    (last.op = "create" /\ Has("usbPrompt"))
        => /\ SubSeq(last.targets, 1, Len(BaseTargets(last.kind))) = BaseTargets(last.kind)
           /\ TypedAll => UsbPart = Offered
           /\ ~TypedAll => DrivesOf(UsbPart, {i \in 1..Len(Typed) : GoodEntry(i)})
           /\ Has("estimate")

\* C9 as amended: the targets are the base paths of the kind followed by every
\* offered drive for "all"; for a list whose entries are all integers, by the
\* drive of every entry in 1..number of drives, in the order typed and once
\* per entry, every other entry being reported and skipped; for a list with an
\* entry that is not an integer, by no drive at all, which is reported. Create
\* goes on to the size estimation in each case.
C9_SelectionResolved ==
    (last.op = "create" /\ Has("usbPrompt"))
        => /\ SubSeq(last.targets, 1, Len(BaseTargets(last.kind))) = BaseTargets(last.kind)
           /\ TypedAll => UsbPart = Offered
           /\ (~TypedAll /\ \A i \in 1..Len(Typed) : ParseInt(Typed[i]).ok)
                 => /\ DrivesOf(UsbPart, {i \in 1..Len(Typed) : GoodEntry(i)})
                    /\ Has("invalidSkipped") <=> \E i \in 1..Len(Typed) : ~GoodEntry(i)
                    /\ ~Has("selectionDropped")
           /\ (~TypedAll /\ \E i \in 1..Len(Typed) : ~ParseInt(Typed[i]).ok)
                 => UsbPart = <<>> /\ Has("selectionDropped")
           /\ Has("estimate")

\* A create whose list named an offered drive and a number out of range: the
\* drive is among the targets, the number was reported
C9_Witness ==
    /\ last.op = "create"
    /\ Has("usbPrompt")
    /\ Has("invalidSkipped")
    /\ UsbPart # <<>>
    /\ Has("estimate")

\* C10: when the size of a target cannot be estimated, create passes no size
\* to pv (progress is off) and still archives.
C10_FailedEstimateDisablesProgress ==
    (last.op = "create" /\ Has("estimateWarning"))
        => /\ last.pvSize = -1
           /\ last.root => Has("archive")

\* C11: every USB drive selected in a create that reports success is archived:
\* none of the selected mount points is left out by the exclude patterns the
\* same tar command is given.
C11_SelectedVolumesArchived ==
    (last.op = "create" /\ Has("archive") /\ Has("success"))
        => \A i \in 1..Len(UsbPart) :
              /\ ~TarExcludes(UsbPart[i])
              /\ UsbPart[i] \in Range(last.members)

====
